---- MODULE Spec2Model ----
(***************************************************************************)
(* Model of build_utils::BuildRoot::find (src/rust/engine/build_utils).    *)
(*                                                                         *)
(* find() reads the process's current working directory and walks its      *)
(* ancestor chain upward, testing `here.join("pants").exists()` on every   *)
(* candidate, until the test succeeds or the candidate has no parent.      *)
(*                                                                         *)
(* A path is the sequence of its components below the filesystem root, so  *)
(* <<>> is "/", <<"a">> is "/a" and <<"a", "pants">> is "/a/pants".  The   *)
(* filesystem is the set of existing entries plus the set of directories   *)
(* whose search permission is withdrawn; both can be changed by other      *)
(* processes at any moment, also while find() is between two iterations.   *)
(***************************************************************************)
EXTENDS Naturals, Sequences, FiniteSets

\* Longest directory path the model's filesystem holds (components below "/").
MaxDepth == 2
\* Most entries, besides "/", the model's filesystem holds at once.
MaxEntries == 3
\* Most directories that have their search permission withdrawn at once.
MaxDenied == 1

\* The literal of `here.join("pants")`.
MARKER == "pants"
\* Component names; a directory may itself be called "pants".
Names == {"a", MARKER}

SeqsUpTo(n) == UNION {[1..k -> Names] : k \in 0..n}
\* Directories the process can be in, or walk through.
Dirs == SeqsUpTo(MaxDepth)
\* Entries the filesystem can hold: the directories and a marker in each.
Entries == Dirs \cup {Append(d, MARKER) : d \in Dirs}

Root == <<>>
\* Option::None for a path.
NoPath == <<"<none>">>

VARIABLES
  fs,          \* environment: the set of existing entries (prefix closed)
  denied,      \* environment: directories that cannot be searched
  cwd,         \* environment: the process's current working directory
  cwdFault,    \* environment: TRUE when reading the cwd is not permitted
  pc,          \* "idle", "loop" (inside find's loop), "done" (find returned)
  current_dir, \* find's local `current_dir`
  here,        \* find's local `here`
  result,      \* the io::Result find returned
  checked,     \* the existence checks this call made, in order
  quiet,       \* no environment change since this call began
  prev         \* the previous call's result, kept while the environment
               \* has not changed since that call began

vars == <<fs, denied, cwd, cwdFault, pc, current_dir, here, result, checked,
          quiet, prev>>
env == <<fs, denied, cwd, cwdFault>>

----------------------------------------------------------------------------
\* Path operations

\* Path::join with a single relative component.
join(p, name) == Append(p, name)

\* A mutant of parent: steps over the immediate parent.
parent_skip(p) ==
  IF Len(p) = 0 THEN NoPath
  ELSE IF Len(p) = 1 THEN Root
  ELSE SubSeq(p, 1, Len(p) - 2)

\* A mutant of parent: takes a top-level directory to have no parent.
parent_stop(p) ==
  IF Len(p) <= 1 THEN NoPath ELSE SubSeq(p, 1, Len(p) - 1)

\* Path::parent: None for the root, else the path without its last component.
parent(p) ==
  IF Len(p) = 0 THEN NoPath ELSE SubSeq(p, 1, Len(p) - 1)

\* d is p or one of p's transitive parents.
IsAncestorOrSelf(d, p) ==
  /\ Len(d) <= Len(p)
  /\ SubSeq(p, 1, Len(d)) = d

\* The ancestor chain of p, p itself first and the root last.
Ancestors(p) == [i \in 1..(Len(p) + 1) |-> SubSeq(p, 1, Len(p) + 1 - i)]

----------------------------------------------------------------------------
\* Results

NoResult == [tag |-> "None", repr |-> "-", kind |-> "-", path |-> NoPath]
\* Ok(BuildRoot(p))
Ok(p) == [tag |-> "Ok", repr |-> "-", kind |-> "-", path |-> p]
\* An io::Error the operating system reported, passed on as it is.
OsError(k) == [tag |-> "Err", repr |-> "Os", kind |-> k, path |-> NoPath]
\* io::Error::new(NotFound, "Failed to find build root starting from {start}")
NotFoundError(start) ==
  [tag |-> "Err", repr |-> "Custom", kind |-> "NotFound", path |-> start]

----------------------------------------------------------------------------
\* Filesystem queries

\* fs::metadata(p): searching a directory without permission fails first,
\* then a missing entry.
metadata(p) ==
  IF \E k \in 0..(Len(p) - 1) : SubSeq(p, 1, k) \in denied
    THEN "PermissionDenied"
  ELSE IF p \notin fs THEN "NotFound"
  ELSE "Ok"

\* A mutant of exists: tests the directory, not the marker in it.
exists_dir(p) == metadata(SubSeq(p, 1, Len(p) - 1)) = "Ok"

\* Path::exists: fs::metadata(p).is_ok(), every error read as absence.
exists(p) == metadata(p) = "Ok"

\* env::current_dir(): fails when the directory was removed or may not be read.
env_current_dir ==
  IF cwd \notin fs THEN OsError("NotFound")
  ELSE IF cwdFault THEN OsError("PermissionDenied")
  ELSE Ok(cwd)

\* One iteration's existence check: the candidate, what find() took the
\* answer to be, and what the filesystem answered at that moment.
Check(dir) ==
  [dir |-> dir,
   found |-> exists(join(dir, MARKER)),
   meta |-> metadata(join(dir, MARKER))]

----------------------------------------------------------------------------
\* Environment: other processes, and the caller between two calls.  A call
\* that has returned hands its result to the caller at once (Return), so the
\* environment moves before a call and between two iterations of its loop.

\* The directory an entry other than "/" lies in.
Container(e) == SubSeq(e, 1, Len(e) - 1)
Children(p) == {e \in fs : Len(e) = Len(p) + 1 /\ Container(e) = p}

Create(e) ==
  /\ pc # "done"
  /\ e \notin fs
  /\ Container(e) \in fs
  /\ Cardinality(fs) <= MaxEntries
  /\ fs' = fs \cup {e}
  /\ quiet' = FALSE
  /\ prev' = NoResult
  /\ UNCHANGED <<denied, cwd, cwdFault, pc, current_dir, here, result, checked>>

Remove(e) ==
  /\ pc # "done"
  /\ e \in fs
  /\ e # Root
  /\ Children(e) = {}
  /\ fs' = fs \ {e}
  /\ denied' = denied \ {e}
  /\ quiet' = FALSE
  /\ prev' = NoResult
  /\ UNCHANGED <<cwd, cwdFault, pc, current_dir, here, result, checked>>

Deny(d) ==
  /\ pc # "done"
  /\ d \in fs \cap Dirs
  /\ d \notin denied
  /\ Cardinality(denied) < MaxDenied
  /\ denied' = denied \cup {d}
  /\ quiet' = FALSE
  /\ prev' = NoResult
  /\ UNCHANGED <<fs, cwd, cwdFault, pc, current_dir, here, result, checked>>

Allow(d) ==
  /\ pc # "done"
  /\ d \in denied
  /\ denied' = denied \ {d}
  /\ quiet' = FALSE
  /\ prev' = NoResult
  /\ UNCHANGED <<fs, cwd, cwdFault, pc, current_dir, here, result, checked>>

SetCwdFault ==
  /\ pc # "done"
  /\ cwdFault' = ~cwdFault
  /\ quiet' = FALSE
  /\ prev' = NoResult
  /\ UNCHANGED <<fs, denied, cwd, pc, current_dir, here, result, checked>>

\* The caller changes directory; find() never yields, so only between calls.
Chdir(d) ==
  /\ pc = "idle"
  /\ d \in fs \cap Dirs
  /\ d # cwd
  /\ cwd' = d
  /\ quiet' = FALSE
  /\ prev' = NoResult
  /\ UNCHANGED <<fs, denied, cwdFault, pc, current_dir, here, result, checked>>

----------------------------------------------------------------------------
\* BuildRoot::find

\* A mutant of StartErr: reports a failed cwd read as a failed search.
StartErrAsNotFound ==
  /\ pc = "idle"
  /\ env_current_dir.tag = "Err"
  /\ result' = NotFoundError(cwd)
  /\ pc' = "done"
  /\ current_dir' = NoPath
  /\ here' = NoPath
  /\ checked' = <<>>
  /\ quiet' = TRUE
  /\ UNCHANGED <<env, prev>>

\* `let current_dir = env::current_dir()?;` returning the error
StartErr ==
  /\ pc = "idle"
  /\ env_current_dir.tag = "Err"
  /\ result' = env_current_dir
  /\ pc' = "done"
  /\ current_dir' = NoPath
  /\ here' = NoPath
  /\ checked' = <<>>
  /\ quiet' = TRUE
  /\ UNCHANGED <<env, prev>>

\* `let current_dir = env::current_dir()?; let mut here = current_dir.as_path();`
StartOk ==
  /\ pc = "idle"
  /\ env_current_dir.tag = "Ok"
  /\ current_dir' = env_current_dir.path
  /\ here' = env_current_dir.path
  /\ pc' = "loop"
  /\ result' = NoResult
  /\ checked' = <<>>
  /\ quiet' = TRUE
  /\ UNCHANGED <<env, prev>>

\* A mutant of Found: wraps the marker's path, not the directory's.
FoundMarkerPath ==
  /\ pc = "loop"
  /\ exists(join(here, MARKER))
  /\ checked' = Append(checked, Check(here))
  /\ result' = Ok(join(here, MARKER))
  /\ pc' = "done"
  /\ UNCHANGED <<env, current_dir, here, quiet, prev>>

\* A mutant of Found: makes the build root the working directory.
FoundChdir ==
  /\ pc = "loop"
  /\ exists(join(here, MARKER))
  /\ checked' = Append(checked, Check(here))
  /\ result' = Ok(here)
  /\ pc' = "done"
  /\ cwd' = here
  /\ UNCHANGED <<fs, denied, cwdFault, current_dir, here, quiet, prev>>

\* `if here.join("pants").exists() { return Ok(BuildRoot(here.to_path_buf())); }`
Found ==
  /\ pc = "loop"
  /\ exists(join(here, MARKER))
  /\ checked' = Append(checked, Check(here))
  /\ result' = Ok(here)
  /\ pc' = "done"
  /\ UNCHANGED <<env, current_dir, here, quiet, prev>>

\* A mutant of Ascend: never moves the candidate.
AscendStay ==
  /\ pc = "loop"
  /\ ~exists(join(here, MARKER))
  /\ parent(here) # NoPath
  /\ checked' = Append(checked, Check(here))
  /\ UNCHANGED <<env, pc, current_dir, here, result, quiet, prev>>

\* A mutant of Ascend: an access error ends the search.
AscendStrict ==
  /\ pc = "loop"
  /\ ~exists(join(here, MARKER))
  /\ parent(here) # NoPath
  /\ checked' = Append(checked, Check(here))
  /\ IF metadata(join(here, MARKER)) = "PermissionDenied"
       THEN /\ result' = OsError("PermissionDenied")
            /\ pc' = "done"
            /\ here' = here
       ELSE /\ here' = parent(here)
            /\ UNCHANGED <<pc, result>>
  /\ UNCHANGED <<env, current_dir, quiet, prev>>

\* A mutant of Ascend: walks by changing the working directory.
AscendChdir ==
  /\ pc = "loop"
  /\ ~exists(join(here, MARKER))
  /\ parent(here) # NoPath
  /\ checked' = Append(checked, Check(here))
  /\ here' = parent(here)
  /\ cwd' = parent(here)
  /\ UNCHANGED <<fs, denied, cwdFault, pc, current_dir, result, quiet, prev>>

\* `else if let Some(parent) = here.parent() { here = parent; }`
Ascend ==
  /\ pc = "loop"
  /\ ~exists(join(here, MARKER))
  /\ parent(here) # NoPath
  /\ checked' = Append(checked, Check(here))
  /\ here' = parent(here)
  /\ UNCHANGED <<env, pc, current_dir, result, quiet, prev>>

\* A mutant of NotFound: names the last candidate, not the starting directory.
NotFoundHere ==
  /\ pc = "loop"
  /\ ~exists(join(here, MARKER))
  /\ parent(here) = NoPath
  /\ checked' = Append(checked, Check(here))
  /\ result' = NotFoundError(here)
  /\ pc' = "done"
  /\ UNCHANGED <<env, current_dir, here, quiet, prev>>

\* `else { return Err(io::Error::new(io::ErrorKind::NotFound, ...current_dir)); }`
NotFound ==
  /\ pc = "loop"
  /\ ~exists(join(here, MARKER))
  /\ parent(here) = NoPath
  /\ checked' = Append(checked, Check(here))
  /\ result' = NotFoundError(current_dir)
  /\ pc' = "done"
  /\ UNCHANGED <<env, current_dir, here, quiet, prev>>

\* The caller takes the result; find's locals are gone.
Return ==
  /\ pc = "done"
  /\ pc' = "idle"
  /\ prev' = IF quiet THEN result ELSE NoResult
  /\ current_dir' = NoPath
  /\ here' = NoPath
  /\ result' = NoResult
  /\ checked' = <<>>
  /\ UNCHANGED <<env, quiet>>

FindStep == StartErr \/ StartOk \/ Found \/ Ascend \/ NotFound \/ Return

----------------------------------------------------------------------------

Init ==
  /\ fs = {Root}
  /\ denied = {}
  /\ cwd = Root
  /\ cwdFault = FALSE
  /\ pc = "idle"
  /\ current_dir = NoPath
  /\ here = NoPath
  /\ result = NoResult
  /\ checked = <<>>
  /\ quiet = TRUE
  /\ prev = NoResult

Next ==
  \/ \E e \in Entries : Create(e)
  \/ \E e \in Entries : Remove(e)
  \/ \E d \in Dirs : Deny(d)
  \/ \E d \in Dirs : Allow(d)
  \/ \E d \in Dirs : Chdir(d)
  \/ SetCwdFault
  \/ StartErr
  \/ StartOk
  \/ Found
  \/ Ascend
  \/ NotFound
  \/ Return

Spec == Init /\ [][Next]_vars

TypeOK ==
  /\ fs \subseteq Entries
  /\ \A e \in fs : e = Root \/ Container(e) \in fs
  /\ denied \subseteq fs \cap Dirs
  /\ cwd \in Dirs
  /\ pc \in {"idle", "loop", "done"}

----------------------------------------------------------------------------
\* Properties of find()

\* The call read its working directory and entered the walk.
Walking == pc \in {"loop", "done"} /\ current_dir # NoPath
\* find() has returned and the environment stood still throughout the call.
DoneQuiet == pc = "done" /\ quiet
\* The directories this call tested, in order.
TestedDirs == [i \in 1..Len(checked) |-> checked[i].dir]
\* The ancestors-or-self of p.
Chain(p) == {d \in Dirs : IsAncestorOrSelf(d, p)}

\* C1 (soundness): whenever find() returns Ok(d), the check it made last was
\* the check of d/pants, find() took it to have succeeded, and the entry
\* d/pants was on the filesystem at the moment of that check.
C1_Soundness ==
  (pc = "done" /\ result.tag = "Ok") =>
    /\ Len(checked) > 0
    /\ checked[Len(checked)].dir = result.path
    /\ checked[Len(checked)].found
    /\ checked[Len(checked)].meta = "Ok"

C1_Witness ==
  /\ pc = "done"
  /\ result.tag = "Ok"
  /\ result.path # Root
  /\ join(result.path, MARKER) \in fs

\* C2 as stated: on a filesystem that stood still, find() returns the deepest
\* ancestor-or-self of the starting directory that contains an entry "pants".
C2_NearestContaining ==
  (DoneQuiet /\ result.tag = "Ok") =>
    /\ IsAncestorOrSelf(result.path, current_dir)
    /\ join(result.path, MARKER) \in fs
    /\ \A d \in Chain(current_dir) :
         Len(d) > Len(result.path) => join(d, MARKER) \notin fs

\* C2 as amended: on a filesystem that stood still, find() returns the deepest
\* ancestor-or-self of the starting directory whose entry "pants" the
\* existence check can see (it exists and no access error hides it); a
\* starting directory with a visible marker is returned after one check.
C2_NearestVisible ==
  /\ (DoneQuiet /\ result.tag = "Ok") =>
       /\ IsAncestorOrSelf(result.path, current_dir)
       /\ exists(join(result.path, MARKER))
       /\ \A d \in Chain(current_dir) :
            Len(d) > Len(result.path) => ~exists(join(d, MARKER))
  /\ (DoneQuiet /\ current_dir # NoPath /\ exists(join(current_dir, MARKER))) =>
       /\ result = Ok(current_dir)
       /\ Len(checked) = 1

C2_Witness ==
  /\ DoneQuiet
  /\ result.tag = "Ok"
  /\ result.path # current_dir
  /\ result.path # Root
  /\ join(Root, MARKER) \in fs

\* C3 (ancestor property): throughout the walk the candidate is the starting
\* directory or one of its transitive parents, every directory tested is one,
\* and so is the directory a successful find() returns.
C3_AncestorOnly ==
  Walking =>
    /\ IsAncestorOrSelf(here, current_dir)
    /\ \A i \in 1..Len(checked) : IsAncestorOrSelf(checked[i].dir, current_dir)
    /\ result.tag = "Ok" => IsAncestorOrSelf(result.path, current_dir)

C3_Witness ==
  /\ pc = "done"
  /\ result.tag = "Ok"
  /\ Len(result.path) < Len(current_dir)
  /\ \E d \in Dirs : ~IsAncestorOrSelf(d, current_dir) /\ join(d, MARKER) \in fs

\* C4 (not-found boundary): when the working directory can be read and neither
\* it nor any of its ancestors, the root included, holds an entry "pants",
\* find() fails with the NotFound error that names the working directory the
\* call started from.
C4_NotFoundNamesStart ==
  (/\ DoneQuiet
   /\ env_current_dir.tag = "Ok"
   /\ \A d \in Chain(cwd) : join(d, MARKER) \notin fs) =>
    /\ current_dir = cwd
    /\ result = NotFoundError(cwd)

C4_Witness ==
  /\ DoneQuiet
  /\ result = NotFoundError(cwd)
  /\ cwd # Root
  /\ here = Root

\* C5 as stated: when the working directory cannot be read, find() fails at
\* once with the cause, makes no existence check, never enters the walk,
\* returns no BuildRoot, and the failure is not of kind NotFound.
C5_CwdFailureNotNotFound ==
  (DoneQuiet /\ env_current_dir.tag = "Err") =>
    /\ result.tag = "Err"
    /\ result.repr = "Os"
    /\ checked = <<>>
    /\ here = NoPath
    /\ result.kind # "NotFound"

\* C5 as amended: when the working directory cannot be read, find() fails at
\* once with the operating system's error unchanged (its kind is NotFound
\* when the directory was removed), makes no existence check, never enters
\* the walk, returns no BuildRoot, and never builds the search's own
\* NotFound error, the one that names a starting directory.
C5_CwdFailurePassedOn ==
  (DoneQuiet /\ env_current_dir.tag = "Err") =>
    /\ result = env_current_dir
    /\ result.tag = "Err"
    /\ result.repr = "Os"
    /\ checked = <<>>
    /\ here = NoPath
    /\ current_dir = NoPath

C5_Witness ==
  /\ DoneQuiet
  /\ result = OsError("NotFound")
  /\ cwd \notin fs
  /\ join(Root, MARKER) \in fs

\* C6 as stated: find() makes at most depth(starting directory) existence
\* checks.
C6_AtMostDepthChecks ==
  Walking => Len(checked) <= Len(current_dir)

\* C6 as amended: find() makes at most depth(starting directory) + 1
\* existence checks, one for each ancestor-or-self with the root included;
\* inside the loop the checks made and the depth of the candidate add up to
\* the depth of the starting directory, and an iteration can always be taken.
C6_AtMostDepthPlusOneChecks ==
  /\ Walking => Len(checked) <= Len(current_dir) + 1
  /\ pc = "loop" =>
       /\ Len(checked) + Len(here) = Len(current_dir)
       /\ ENABLED (Found \/ Ascend \/ NotFound)

C6_Witness ==
  /\ pc = "done"
  /\ Len(current_dir) = MaxDepth
  /\ current_dir # NoPath
  /\ Len(checked) = Len(current_dir) + 1

\* C7 (access error read as absence): a check that hits an access error is
\* taken as "no marker here" and the walk goes on to the parent (or, at the
\* root, ends in NotFound); a failed find() is either the error of reading the
\* working directory, before any check, or the search's NotFound error.
C7_AccessErrorIsAbsence ==
  /\ \A i \in 1..Len(checked) :
       checked[i].meta = "PermissionDenied" =>
         /\ ~checked[i].found
         /\ IF i < Len(checked)
              THEN checked[i + 1].dir = parent(checked[i].dir)
              ELSE \/ pc = "loop" /\ here = parent(checked[i].dir)
                   \/ /\ pc = "done"
                      /\ checked[i].dir = Root
                      /\ result = NotFoundError(current_dir)
  /\ (pc = "done" /\ result.tag = "Err") =>
       \/ result.repr = "Os" /\ checked = <<>>
       \/ result = NotFoundError(current_dir) /\ current_dir # NoPath

C7_Witness ==
  /\ pc = "done"
  /\ result.tag = "Ok"
  /\ \E i \in 1..Len(checked) :
       checked[i].meta = "PermissionDenied" /\ join(checked[i].dir, MARKER) \in fs

\* C8 (determinism): a call that follows another, with no change of the
\* filesystem or of the working directory since the earlier call began,
\* returns the result the earlier call returned.
C8_Deterministic ==
  (DoneQuiet /\ prev # NoResult) => result = prev

C8_Witness ==
  /\ DoneQuiet
  /\ prev # NoResult
  /\ Len(checked) >= 2
  /\ result.tag = "Ok"

\* C9 (frame): every step of find(), on every outcome, leaves the filesystem's
\* entries and permissions and the process's working directory as they were.
C9_Frame ==
  [][(pc' # pc \/ checked' # checked) => UNCHANGED env]_vars

C9_Witness ==
  /\ DoneQuiet
  /\ Len(checked) >= 2
  /\ result.tag = "Err"
  /\ Cardinality(fs) > MaxEntries

\* C10 as stated: NotFound is returned only after every ancestor-or-self was
\* tested once, in order from the starting directory up to the root, with
\* every check negative; on a filesystem that stood still find() succeeds
\* exactly when some ancestor-or-self contains an entry "pants".
C10_SucceedsIffContained ==
  /\ (pc = "done" /\ result.tag = "Err" /\ result.repr = "Custom") =>
       /\ TestedDirs = Ancestors(current_dir)
       /\ \A i \in 1..Len(checked) : ~checked[i].found
  /\ (DoneQuiet /\ current_dir # NoPath) =>
       (result.tag = "Ok" <=>
          \E d \in Chain(current_dir) : join(d, MARKER) \in fs)

\* C10 as amended: NotFound is returned only after every ancestor-or-self was
\* tested once, in order from the starting directory up to the root, with
\* every check negative; on a filesystem that stood still find() succeeds
\* exactly when some ancestor-or-self has an entry "pants" that the existence
\* check can see (it exists and no access error hides it).
C10_SucceedsIffVisible ==
  /\ (pc = "done" /\ result.tag = "Err" /\ result.repr = "Custom") =>
       /\ TestedDirs = Ancestors(current_dir)
       /\ \A i \in 1..Len(checked) : ~checked[i].found
  /\ (DoneQuiet /\ current_dir # NoPath) =>
       (result.tag = "Ok" <=>
          \E d \in Chain(current_dir) : exists(join(d, MARKER)))

C10_Witness ==
  /\ DoneQuiet
  /\ result.repr = "Custom"
  /\ Len(current_dir) = MaxDepth
  /\ Len(checked) = MaxDepth + 1
====
